---- MODULE Spec2Model ----
(***************************************************************************)
(* Annual Performance Analyzer (src/pages/2_Annual_Performance.py).        *)
(*                                                                         *)
(* One request of process_and_display_data: fetch the price history,       *)
(* split it by calendar year, fill and normalise every year, draw the      *)
(* chart and the summary table.                                            *)
(*                                                                         *)
(* Representation                                                          *)
(*   date            <<year, month, day>>                                  *)
(*   DataFrame       sequence of rows [date |-> .., Close |-> ..],         *)
(*                   strictly increasing in date                           *)
(*   pd.Series       [index |-> Seq, values |-> Seq] of equal length       *)
(*   dict            function whose DOMAIN is the set of keys              *)
(*   None / value    <<>> / <<value>>                                      *)
(*   float           closes are whole numbers; a quotient is the exact     *)
(*                   rational <<numerator, denominator>> in lowest terms   *)
(*                   (float64 rounding error is not modelled)              *)
(*   f"{x:.2f}"      the number of hundredths, rounded                     *)
(***************************************************************************)
EXTENDS Integers, Sequences, FiniteSets, TLC

VARIABLES
    market,            \* what the provider holds for the ticker (rows)
    fails,             \* TRUE when yf.download raises
    years_to_display,  \* the selected years, in the order selected
    show_percent,      \* the display mode
    pc,                \* position inside process_and_display_data
    asset_data,        \* result of get_asset_data
    annual_results,    \* result of process_annual_data
    fig,               \* result of create_performance_chart
    summary_df,        \* result of create_summary_table
    ui,                \* the Streamlit elements emitted so far, in order
    downloads          \* number of yf.download calls issued

vars == <<market, fails, years_to_display, show_percent, pc, asset_data,
          annual_results, fig, summary_df, ui, downloads>>

----------------------------------------------------------------------------
(* Bounds of the model *)

\* longest year window the provider returns
MaxWin == 7
\* observations that may follow the three of the end-to-end scenario
MaxExtra == 4

----------------------------------------------------------------------------
(* Program constants *)

\* len(year_data) > 5
MinPoints == 5
\* pd.Timestamp(2000, d.month, d.day)
RefYear == 2000
\* len(COLOR_PALETTE)
PaletteLen == 10
\* a missing close (NaN)
NaN == -1

None == <<>>
Some(x) == <<x>>

----------------------------------------------------------------------------
(* Sequences *)

Last(s) == s[Len(s)]
Front(s) == SubSeq(s, 1, Len(s) - 1)
Range(s) == {s[i] : i \in 1..Len(s)}
MinOf(S) == CHOOSE x \in S : \A y \in S : x <= y

----------------------------------------------------------------------------
(* Dates *)

IsLeap(y) == (y % 4 = 0 /\ y % 100 # 0) \/ y % 400 = 0

DaysInMonth(y, m) ==
    IF m = 2 THEN (IF IsLeap(y) THEN 29 ELSE 28)
    ELSE IF m \in {4, 6, 9, 11} THEN 30 ELSE 31

DateLT(a, b) ==
    \/ a[1] < b[1]
    \/ a[1] = b[1] /\ a[2] < b[2]
    \/ a[1] = b[1] /\ a[2] = b[2] /\ a[3] < b[3]

\* pd.Timestamp(y, m, d): the date, or None when it raises ValueError
Timestamp(y, m, d) ==
    IF m \in 1..12 /\ d \in 1..DaysInMonth(y, m) THEN Some(<<y, m, d>>) ELSE None

\* strftime('%A'): 0 = Sunday .. 6 = Saturday
Weekday(date) ==
    LET t == <<0, 3, 2, 5, 0, 3, 5, 1, 4, 6, 2, 4>>
        y == IF date[2] < 3 THEN date[1] - 1 ELSE date[1]
    IN (y + (y \div 4) - (y \div 100) + (y \div 400) + t[date[2]] + date[3]) % 7

----------------------------------------------------------------------------
(* Numbers *)

RECURSIVE GCD(_, _)
GCD(a, b) == IF b = 0 THEN a ELSE GCD(b, a % b)

Abs(n) == IF n < 0 THEN 0 - n ELSE n

\* the rational n/d (d > 0) in lowest terms
Rat(n, d) == LET g == GCD(Abs(n), d) IN <<n \div g, d \div g>>

\* f"{x:.2f}" of the rational x: hundredths, halves rounded up
Format2(x) == (200 * x[1] + x[2]) \div (2 * x[2])

----------------------------------------------------------------------------
(* pandas *)

\* len(series)
SLen(s) == Len(s.values)

\* data[data.index.year == year]["Close"]
YearClose(data, year) ==
    LET rows == SelectSeq(data, LAMBDA r : r.date[1] = year)
    IN [index  |-> [i \in 1..Len(rows) |-> rows[i].date],
        values |-> [i \in 1..Len(rows) |-> rows[i].Close]]

\* Series.first_valid_index(): the label of the first non-missing value
first_valid_index(s) ==
    LET valid == {i \in 1..SLen(s) : s.values[i] # NaN}
    IN IF valid = {} THEN None ELSE Some(s.index[MinOf(valid)])

\* Series.loc[label]
loc(s, label) ==
    s.values[MinOf({i \in 1..SLen(s) : s.index[i] = label})]

\* Series.ffill() on the values: a gap takes the value before it
RECURSIVE ffill(_)
ffill(v) ==
    IF v = <<>> THEN <<>>
    ELSE LET p == ffill(Front(v))
             x == Last(v)
         IN Append(p, IF x = NaN /\ p # <<>> THEN Last(p) ELSE x)

\* Series.bfill() on the values: a gap takes the value after it
RECURSIVE bfill(_)
bfill(v) ==
    IF v = <<>> THEN <<>>
    ELSE LET n == bfill(Tail(v))
             x == Head(v)
         IN <<IF x = NaN /\ n # <<>> THEN Head(n) ELSE x>> \o n

----------------------------------------------------------------------------
(* process_annual_data *)

\* variant: "len(year_data) >= 5"
LongEnoughGE(year_data) == SLen(year_data) >= MinPoints

\* variant: "if not year_data.empty"
LongEnoughNonEmpty(year_data) == SLen(year_data) > 0

\* len(year_data) > 5
LongEnough(year_data) == SLen(year_data) > MinPoints

\* variant: year_data.bfill().ffill()
FillGapsBackFirst(year_data) ==
    [index |-> year_data.index, values |-> ffill(bfill(year_data.values))]

\* variant: year_data.dropna()
FillGapsDrop(year_data) ==
    LET keep == SelectSeq([i \in 1..SLen(year_data) |-> i],
                          LAMBDA i : year_data.values[i] # NaN)
    IN [index  |-> [k \in 1..Len(keep) |-> year_data.index[keep[k]]],
        values |-> [k \in 1..Len(keep) |-> year_data.values[keep[k]]]]

\* year_data.ffill().bfill()
FillGaps(year_data) ==
    [index |-> year_data.index, values |-> bfill(ffill(year_data.values))]

\* variant: (value / first_value) * 100
PctReturnNoBase(value, first_value) == Rat(100 * value, first_value)

\* ((value / first_value) - 1) * 100
PctReturn(value, first_value) ==
    LET q == Rat(value, first_value)
        m == <<q[1] - q[2], q[2]>>
    IN Rat(100 * m[1], m[2])

\* variant: a reference year that is not a leap year
CommonYearDateNonLeap(d) == Timestamp(RefYear + 1, d[2], d[3])

\* pd.Timestamp(2000, d.month, d.day)
CommonYearDate(d) == Timestamp(RefYear, d[2], d[3])

EmptyAcc ==
    [raised |-> FALSE, normalized |-> <<>>, original |-> <<>>, dates |-> <<>>]

\* one iteration of "for year in years"
ProcessYear(data, year, acc) ==
    LET year_data == YearClose(data, year)
    IN IF acc.raised \/ ~LongEnough(year_data) THEN acc
       ELSE LET first_valid_idx == first_valid_index(year_data)
            IN IF first_valid_idx = None THEN acc
               ELSE LET first_value == loc(year_data, first_valid_idx[1])
                        filled == FillGaps(year_data)
                        n == SLen(filled)
                        norm_data ==
                            [i \in 1..n |-> PctReturn(filled.values[i], first_value)]
                        common_year_index ==
                            [i \in 1..Len(filled.index) |-> CommonYearDate(filled.index[i])]
                    IN IF \E i \in 1..Len(filled.index) : common_year_index[i] = None
                       THEN [acc EXCEPT !.raised = TRUE]
                       ELSE [raised |-> FALSE,
                             normalized |->
                                 (year :> [index  |-> [i \in 1..Len(filled.index) |->
                                                          common_year_index[i][1]],
                                           values |-> norm_data])
                                 @@ acc.normalized,
                             original |-> (year :> filled) @@ acc.original,
                             dates |-> (year :> filled.index) @@ acc.dates]

RECURSIVE ProcessYears(_, _)
ProcessYears(data, years) ==
    IF years = <<>> THEN EmptyAcc
    ELSE ProcessYear(data, Last(years), ProcessYears(data, Front(years)))

\* [raised |-> an exception left the function, ret |-> None or the three dicts]
process_annual_data(data, years) ==
    IF data = None \/ years = <<>> THEN [raised |-> FALSE, ret |-> None]
    ELSE LET acc == ProcessYears(data[1], years)
         IN IF acc.raised THEN [raised |-> TRUE, ret |-> None]
            ELSE [raised |-> FALSE,
                  ret |-> Some([normalized |-> acc.normalized,
                                original   |-> acc.original,
                                dates      |-> acc.dates])]

----------------------------------------------------------------------------
(* create_hover_text, create_performance_chart *)

\* one label per item of year_series that has a date at its position
create_hover_text(actual_dates, original_series, year_series) ==
    LET n == IF SLen(year_series) < Len(actual_dates)
             THEN SLen(year_series) ELSE Len(actual_dates)
    IN [j \in 1..n |->
           [Date        |-> actual_dates[j],
            Day         |-> Weekday(actual_dates[j]),
            Value       |-> Format2(<<original_series.values[j], 1>>),
            Performance |-> Format2(year_series.values[j])]]

\* the trace added for the i-th (from 0) year of years_to_display
Trace(i, year, results, percent) ==
    LET annual_data == results.normalized
        annual_original == results.original
        annual_dates == results.dates
        y_data == IF percent THEN annual_data[year].values
                  ELSE annual_original[year].values
        dates == annual_data[year].index
        hover_text == create_hover_text(annual_dates[year], annual_original[year],
                                        annual_data[year])
        m == MinOf({Len(annual_dates[year]), SLen(annual_original[year]),
                    SLen(annual_data[year])})
        custom_data == [k \in 1..m |->
                           <<annual_dates[year][k], annual_original[year].values[k],
                             annual_data[year].values[k]>>]
    IN [name       |-> year,
        x          |-> dates,
        y          |-> y_data,
        color      |-> i % PaletteLen,
        hovertext  |-> IF Len(hover_text) = Len(dates) THEN Some(hover_text) ELSE None,
        customdata |-> custom_data]

\* variant: the hover label reports the plotted quantity
create_performance_chart_HoverY(results, years, percent) ==
    LET shown == SelectSeq([i \in 1..Len(years) |-> i],
                           LAMBDA i : years[i] \in DOMAIN results.normalized)
        trace(k) == Trace(shown[k] - 1, years[shown[k]], results, percent)
        hover(k) ==
            IF percent \/ trace(k).hovertext = None THEN trace(k).hovertext
            ELSE Some([j \in 1..Len(trace(k).hovertext[1]) |->
                          [trace(k).hovertext[1][j] EXCEPT
                              !.Performance = trace(k).hovertext[1][j].Value]])
    IN [traces |-> [k \in 1..Len(shown) |-> [trace(k) EXCEPT !.hovertext = hover(k)]],
        title        |-> IF percent THEN "Annual Performance (%)" ELSE "Annual Value",
        yaxis_title  |-> IF percent THEN "Performance (%)" ELSE "Value",
        ticksuffix   |-> IF percent THEN "%" ELSE ""]

create_performance_chart(results, years, percent) ==
    LET shown == SelectSeq([i \in 1..Len(years) |-> i],
                           LAMBDA i : years[i] \in DOMAIN results.normalized)
    IN [traces |-> [k \in 1..Len(shown) |->
                       Trace(shown[k] - 1, years[shown[k]],
                             results, percent)],
        title        |-> IF percent THEN "Annual Performance (%)" ELSE "Annual Value",
        yaxis_title  |-> IF percent THEN "Performance (%)" ELSE "Value",
        ticksuffix   |-> IF percent THEN "%" ELSE ""]

----------------------------------------------------------------------------
(* create_summary_table *)

\* d[key] = value on an insertion-ordered dict, kept as a sequence of pairs
DictSet(d, key, value) ==
    IF \E i \in 1..Len(d) : d[i][1] = key
    THEN [i \in 1..Len(d) |-> IF d[i][1] = key THEN <<key, value>> ELSE d[i]]
    ELSE Append(d, <<key, value>>)

\* the two dicts after the loop over years_to_display (they share their keys)
RECURSIVE YearEnd(_, _, _)
YearEnd(annual_data, annual_original, years) ==
    IF years = <<>> THEN <<>>
    ELSE LET d == YearEnd(annual_data, annual_original, Front(years))
             year == Last(years)
         IN IF year \in DOMAIN annual_data /\ SLen(annual_data[year]) # 0
            THEN DictSet(d, year, [perf  |-> Last(annual_data[year].values),
                                   value |-> Last(annual_original[year].values)])
            ELSE d

\* variant: the rows sorted by year
create_summary_table_Sorted(annual_data, annual_original, years) ==
    LET d == SortSeq(YearEnd(annual_data, annual_original, years),
                     LAMBDA a, b : a[1] < b[1])
    IN IF d # <<>>
       THEN Some([i \in 1..Len(d) |->
                     [Year           |-> d[i][1],
                      YearEndValue   |-> Format2(<<d[i][2].value, 1>>),
                      YearPerformance |-> Format2(d[i][2].perf)]])
       ELSE None

create_summary_table(annual_data, annual_original, years) ==
    LET d == YearEnd(annual_data, annual_original, years)
    IN IF d # <<>>
       THEN Some([i \in 1..Len(d) |->
                     [Year           |-> d[i][1],
                      YearEndValue   |-> Format2(<<d[i][2].value, 1>>),
                      YearPerformance |-> Format2(d[i][2].perf)]])
       ELSE None

----------------------------------------------------------------------------
(* get_asset_data *)

\* yf.download(ticker, start=start_date, end=today): every row from start_date on
yf_download(ticker, start_date) ==
    IF ticker.fails THEN [raised |-> TRUE, df |-> <<>>]
    ELSE [raised |-> FALSE,
          df |-> SelectSeq(ticker.market, LAMBDA r : ~DateLT(r.date, start_date))]

\* variant without "if not years": min([]) raises and the except clause reports it
get_asset_data_NoGuard(ticker, years) ==
    IF years = <<>>
    THEN [ret |-> None, ui |-> <<"error: Error fetching data">>, downloads |-> 0]
    ELSE LET start_date == <<MinOf(Range(years)) - 1, 12, 31>>
             got == yf_download(ticker, start_date)
         IN IF got.raised
            THEN [ret |-> None, ui |-> <<"error: Error fetching data">>, downloads |-> 1]
            ELSE IF got.df = <<>>
            THEN [ret |-> None, ui |-> <<"error: No data found for ticker">>,
                  downloads |-> 1]
            ELSE [ret |-> Some(got.df), ui |-> <<>>, downloads |-> 1]

\* ticker stands for what the provider does for the symbol: [market, fails]
get_asset_data(ticker, years) ==
    IF years = <<>>
    THEN [ret |-> None, ui |-> <<"warning: Please select at least one year to display">>,
          downloads |-> 0]
    ELSE LET start_date == <<MinOf(Range(years)) - 1, 12, 31>>
             got == yf_download(ticker, start_date)
         IN IF got.raised
            THEN [ret |-> None, ui |-> <<"error: Error fetching data">>, downloads |-> 1]
            ELSE IF got.df = <<>>
            THEN [ret |-> None, ui |-> <<"error: No data found for ticker">>,
                  downloads |-> 1]
            ELSE [ret |-> Some(got.df), ui |-> <<>>, downloads |-> 1]

----------------------------------------------------------------------------
(* The requests of the model: what the provider holds and what is selected *)

\* days on which the provider has a row, per year (2020 is a leap year)
Calendar(year) ==
    IF year = 2019
    THEN << <<2019, 1, 2>>, <<2019, 1, 3>>, <<2019, 2, 28>>, <<2019, 3, 1>>,
            <<2019, 6, 28>>, <<2019, 9, 30>>, <<2019, 11, 29>>, <<2019, 12, 30>>,
            <<2019, 12, 31>> >>
    ELSE IF year = 2020
    THEN << <<2020, 1, 2>>, <<2020, 1, 3>>, <<2020, 1, 31>>, <<2020, 2, 1>>,
            <<2020, 2, 28>>, <<2020, 2, 29>>, <<2020, 3, 1>>, <<2020, 6, 30>>,
            <<2020, 12, 31>> >>
    ELSE << <<2021, 1, 4>>, <<2021, 1, 5>>, <<2021, 1, 6>>, <<2021, 1, 7>>,
            <<2021, 1, 8>>, <<2021, 1, 11>>, <<2021, 1, 12>>, <<2021, 1, 13>>,
            <<2021, 1, 14>> >>

Closes == {100, 110, 121}
ScenarioCloses == <<100, 110, 121>>

FirstN(s, n) == SubSeq(s, 1, n)
LastN(s, n) == SubSeq(s, Len(s) - n + 1, Len(s))

Rows(dates, closes) ==
    [i \in 1..Len(dates) |-> [date |-> dates[i], Close |-> closes[i]]]

\* the last n days of the year, the first k of them without a close
LeadingGap(year, n, k) ==
    Rows(LastN(Calendar(year), n),
         [i \in 1..n |-> IF i <= k THEN NaN
                         ELSE ScenarioCloses[((i + year) % 3) + 1]])

\* every selection of the years of S, in every order
YearLists(S) ==
    {s \in UNION {[1..n -> S] : n \in 0..Cardinality(S)} :
        \A i, j \in 1..Len(s) : i # j => s[i] # s[j]}

\* one year, every pattern of closes and gaps
InitOneYear ==
    /\ \E n \in 0..MaxWin : \E c \in [1..n -> {NaN, 100, 110}] :
           market = Rows(LastN(Calendar(2020), n), c)
    /\ years_to_display = <<2020>>
    /\ fails = FALSE

\* two years of independent length, any selection, any provider outcome
InitTwoYears ==
    /\ \E n1, n2 \in 0..MaxWin :
       \E k1 \in {0, 1, n1} \cap 0..n1 : \E k2 \in {0, 1, n2} \cap 0..n2 :
           market = LeadingGap(2019, n1, k1) \o LeadingGap(2020, n2, k2)
    /\ years_to_display \in YearLists({2019, 2020})
    /\ fails \in BOOLEAN

\* 2021-01-04, -05, -06 closing at 100, 110, 121, and what may follow
InitScenario ==
    /\ \E k \in 0..MaxExtra : \E c \in [1..k -> Closes] :
           market = Rows(FirstN(Calendar(2021), 3 + k), ScenarioCloses \o c)
    /\ years_to_display = <<2021>>
    /\ fails = FALSE

Init ==
    /\ InitOneYear \/ InitTwoYears \/ InitScenario
    /\ show_percent \in BOOLEAN
    /\ pc = "start"
    /\ asset_data = None
    /\ annual_results = None
    /\ fig = None
    /\ summary_df = None
    /\ ui = <<>>
    /\ downloads = 0

----------------------------------------------------------------------------
(* process_and_display_data, one action per call it makes *)

inputs == <<market, fails, years_to_display, show_percent>>

\* asset_data = get_asset_data(ticker_symbol, years_to_display)
GetAssetData ==
    /\ pc = "start"
    /\ LET r == get_asset_data([market |-> market, fails |-> fails], years_to_display)
       IN /\ asset_data' = r.ret
          /\ ui' = ui \o r.ui
          /\ downloads' = downloads + r.downloads
    /\ pc' = "fetched"
    /\ UNCHANGED <<inputs, annual_results, fig, summary_df>>

\* annual_results = process_annual_data(asset_data, years_to_display)
ProcessAnnualData ==
    /\ pc = "fetched"
    /\ asset_data # None /\ years_to_display # <<>>
    /\ LET r == process_annual_data(asset_data, years_to_display)
       IN /\ annual_results' = r.ret
          /\ pc' = IF r.raised THEN "raised" ELSE "processed"
    /\ UNCHANGED <<inputs, asset_data, fig, summary_df, ui, downloads>>

HasNormalized == annual_results # None /\ DOMAIN annual_results[1].normalized # {}

\* fig = create_performance_chart(...); st.plotly_chart(fig)
CreatePerformanceChart ==
    /\ pc = "processed"
    /\ HasNormalized
    /\ fig' = Some(create_performance_chart(annual_results[1], years_to_display,
                                            show_percent))
    /\ ui' = Append(ui, "plotly_chart")
    /\ pc' = "charted"
    /\ UNCHANGED <<inputs, asset_data, annual_results, summary_df, downloads>>

\* st.subheader; summary_df = create_summary_table(...); st.table(summary_df)
CreateSummaryTable ==
    /\ pc = "charted"
    /\ LET df == create_summary_table(annual_results[1].normalized,
                                      annual_results[1].original, years_to_display)
       IN /\ summary_df' = df
          /\ ui' = ui \o <<"subheader: Performance Summary">>
                      \o (IF df # None THEN <<"table">> ELSE <<>>)
    /\ pc' = "done"
    /\ UNCHANGED <<inputs, asset_data, annual_results, fig, downloads>>

\* else: st.warning("No complete annual data available ...")
WarnNoCompleteData ==
    /\ pc = "processed"
    /\ ~HasNormalized
    /\ ui' = Append(ui, "warning: No complete annual data available")
    /\ pc' = "done"
    /\ UNCHANGED <<inputs, asset_data, annual_results, fig, summary_df, downloads>>

\* elif years_to_display: st.error("Failed to retrieve data ...")
ErrorFailedToRetrieve ==
    /\ pc = "fetched"
    /\ ~(asset_data # None /\ years_to_display # <<>>)
    /\ years_to_display # <<>>
    /\ ui' = Append(ui, "error: Failed to retrieve data")
    /\ pc' = "done"
    /\ UNCHANGED <<inputs, asset_data, annual_results, fig, summary_df, downloads>>

\* else: st.warning("Please select at least one year to display")
WarnNoYears ==
    /\ pc = "fetched"
    /\ ~(asset_data # None /\ years_to_display # <<>>)
    /\ years_to_display = <<>>
    /\ ui' = Append(ui, "warning: Please select at least one year to display")
    /\ pc' = "done"
    /\ UNCHANGED <<inputs, asset_data, annual_results, fig, summary_df, downloads>>

Next ==
    \/ GetAssetData
    \/ ProcessAnnualData
    \/ CreatePerformanceChart
    \/ CreateSummaryTable
    \/ WarnNoCompleteData
    \/ ErrorFailedToRetrieve
    \/ WarnNoYears

Spec == Init /\ [][Next]_vars

----------------------------------------------------------------------------
(* What the claims speak about *)

\* process_annual_data has returned its three maps
Processed == pc \in {"processed", "charted", "done"} /\ annual_results # None

\* the closes of a year's window of the fetched series, in order
WindowCloses(year) ==
    LET rows == SelectSeq(asset_data[1], LAMBDA r : r.date[1] = year)
    IN [i \in 1..Len(rows) |-> rows[i].Close]

MaxOf(S) == CHOOSE x \in S : \A y \in S : x >= y
Known(raw) == {j \in 1..Len(raw) : raw[j] # NaN}

\* the value the fill policy gives position i of the raw window
FilledAt(raw, i) ==
    IF \E j \in Known(raw) : j <= i
    THEN raw[MaxOf({j \in Known(raw) : j <= i})]
    ELSE raw[MinOf({j \in Known(raw) : j > i})]

IncludedYears == DOMAIN annual_results[1].normalized

----------------------------------------------------------------------------
(* C1: a requested year is in the result exactly when its window has more  *)
(* than 5 points and a non-missing close; the three maps have the same     *)
(* keys; no exception is raised; the summary lists only included years.    *)
C1_Inclusion ==
    /\ pc # "raised"
    /\ Processed =>
         LET res == annual_results[1]
         IN /\ \A y \in Range(years_to_display) :
                   y \in DOMAIN res.normalized
                     <=> /\ Len(WindowCloses(y)) > 5
                         /\ Known(WindowCloses(y)) # {}
            /\ DOMAIN res.normalized \subseteq Range(years_to_display)
            /\ DOMAIN res.original = DOMAIN res.normalized
            /\ DOMAIN res.dates = DOMAIN res.normalized
            /\ summary_df # None =>
                 \A i \in 1..Len(summary_df[1]) :
                     summary_df[1][i].Year \in DOMAIN res.normalized

\* 2019 has 3 observations, 2020 more than 5: only 2020 is reported
C1_Witness ==
    /\ Processed
    /\ pc = "done"
    /\ years_to_display = <<2019, 2020>>
    /\ Len(WindowCloses(2019)) = 3
    /\ IncludedYears = {2020}
    /\ summary_df # None
    /\ Len(summary_df[1]) = 1

(* C2: the filled original values of an included year have no missing      *)
(* entry; each is the last known close at or before its position, or the   *)
(* first known close after it when none precedes it.                       *)
C2_Fill ==
    Processed =>
      \A y \in IncludedYears :
         LET raw == WindowCloses(y)
             filled == annual_results[1].original[y].values
         IN /\ Len(filled) = Len(raw)
            /\ \A i \in 1..Len(filled) :
                  /\ filled[i] # NaN
                  /\ filled[i] = FilledAt(raw, i)

\* a window with a leading gap and an inner gap between two different closes
C2_Witness ==
    /\ Processed
    /\ 2020 \in IncludedYears
    /\ LET raw == WindowCloses(2020)
       IN /\ raw[1] = NaN /\ raw[2] = 100 /\ raw[3] = NaN /\ raw[4] = 110
          /\ raw[Len(raw)] = NaN

(* C3: normalizedValues[i] = (filledValue[i] / baseline - 1) * 100, the    *)
(* baseline being the first non-missing close of the raw window.           *)
C3_Normalized ==
    Processed =>
      \A y \in IncludedYears :
         LET raw == WindowCloses(y)
             baseline == raw[MinOf(Known(raw))]
             norm == annual_results[1].normalized[y].values
         IN /\ Len(norm) = Len(raw)
            /\ \A i \in 1..Len(norm) :
                  /\ norm[i][2] > 0
                  /\ GCD(Abs(norm[i][1]), norm[i][2]) = 1
                  /\ norm[i][1] * baseline
                       = 100 * (FilledAt(raw, i) - baseline) * norm[i][2]

\* the baseline is not at position 1 and some return is not zero
C3_Witness ==
    /\ Processed
    /\ 2020 \in IncludedYears
    /\ LET raw == WindowCloses(2020)
           norm == annual_results[1].normalized[2020].values
       IN /\ raw[1] = NaN /\ raw[2] = 110 /\ raw[3] = 100
          /\ norm[1] = <<0, 1>>
          /\ norm[3][1] < 0

----------------------------------------------------------------------------
\* the series of the end-to-end scenario, followed by the closes of extra
Scenario(extra) ==
    Rows(FirstN(Calendar(2021), 3 + Len(extra)), ScenarioCloses \o extra)

IsScenario ==
    /\ years_to_display = <<2021>>
    /\ ~fails
    /\ Len(market) >= 3
    /\ \A i \in 1..Len(market) :
          /\ market[i].date = Calendar(2021)[i]
          /\ market[i].Close # NaN
    /\ [i \in 1..3 |-> market[i].Close] = ScenarioCloses

(* C4, as stated: closes 100, 110, 121 on 2021-01-04, -05, -06 and the     *)
(* year 2021 give normalizedValues 0.0, 10.0, 21.0 and the year summary    *)
(* (121, 21.0).                                                            *)
C4_Scenario ==
    (pc = "done" /\ market = Scenario(<<>>) /\ years_to_display = <<2021>> /\ ~fails)
      => /\ annual_results # None
         /\ 2021 \in IncludedYears
         /\ annual_results[1].normalized[2021].values = << <<0, 1>>, <<10, 1>>, <<21, 1>> >>
         /\ summary_df = Some(<< [Year |-> 2021, YearEndValue |-> 12100,
                                  YearPerformance |-> 2100] >>)

(* C4, amended: the three-point series is below the inclusion threshold,   *)
(* so 2021 is omitted, nothing is drawn and the "no complete annual data"  *)
(* warning ends the request; once more than 5 gap-free points start with   *)
(* 100, 110, 121 the baseline is 100, the returns start 0, 10, 21 and the  *)
(* summary row is the last close with its return against 100.              *)
C4_ScenarioAmended ==
    (pc = "done" /\ IsScenario) =>
       IF Len(market) <= 5
       THEN /\ annual_results = Some([normalized |-> <<>>, original |-> <<>>,
                                      dates |-> <<>>])
            /\ fig = None
            /\ summary_df = None
            /\ ui = <<"warning: No complete annual data available">>
       ELSE /\ annual_results # None
            /\ IncludedYears = {2021}
            /\ LET norm == annual_results[1].normalized[2021].values
                   last == market[Len(market)].Close
               IN /\ Len(norm) = Len(market)
                  /\ [i \in 1..3 |-> norm[i]] = << <<0, 1>>, <<10, 1>>, <<21, 1>> >>
                  /\ \A i \in 1..Len(norm) :
                        norm[i] = <<market[i].Close - 100, 1>>
                  /\ summary_df = Some(<< [Year |-> 2021,
                                           YearEndValue |-> 100 * last,
                                           YearPerformance |-> 100 * (last - 100)] >>)

\* the scenario itself has run to its end
C4_Witness ==
    /\ pc = "done"
    /\ market = Scenario(<<>>)
    /\ years_to_display = <<2021>>
    /\ annual_results # None

(* C5: for every included year the original values, the normalized values, *)
(* the synthetic index and the true dates have the length of the year's    *)
(* raw window, and so have the hover labels and custom data of its trace.  *)
C5_Lengths ==
    /\ Processed =>
         \A y \in IncludedYears :
            LET res == annual_results[1]
                n == Len(WindowCloses(y))
            IN /\ Len(res.original[y].values) = n
               /\ Len(res.original[y].index) = n
               /\ Len(res.normalized[y].values) = n
               /\ Len(res.normalized[y].index) = n
               /\ Len(res.dates[y]) = n
    /\ fig # None =>
         \A k \in 1..Len(fig[1].traces) :
            LET t == fig[1].traces[k]
                n == Len(WindowCloses(t.name))
            IN /\ Len(t.x) = n
               /\ Len(t.y) = n
               /\ t.hovertext # None
               /\ Len(t.hovertext[1]) = n
               /\ Len(t.customdata) = n

\* an included year whose raw window had gaps has been charted
C5_Witness ==
    /\ fig # None
    /\ \E k \in 1..Len(fig[1].traces) :
          LET raw == WindowCloses(fig[1].traces[k].name)
          IN /\ Len(raw) = 7
             /\ Cardinality(Known(raw)) = 4

(* C6: when the true dates of an included year increase strictly within    *)
(* that year, position i of the synthetic index is (2000, month_i, day_i), *)
(* a valid date, and the synthetic index increases strictly; building it   *)
(* raises for no date, February 29 included.                               *)
C6_Synthetic ==
    /\ pc # "raised"
    /\ Processed =>
         \A y \in IncludedYears :
            LET d == annual_results[1].dates[y]
                x == annual_results[1].normalized[y].index
            IN (/\ \A i \in 1..Len(d) : d[i][1] = y
                /\ \A i, j \in 1..Len(d) : i < j => DateLT(d[i], d[j]))
               => /\ Len(x) = Len(d)
                  /\ \A i \in 1..Len(x) :
                        /\ x[i] = <<2000, d[i][2], d[i][3]>>
                        /\ x[i][3] \in 1..DaysInMonth(2000, x[i][2])
                  /\ \A i, j \in 1..Len(x) : i < j => DateLT(x[i], x[j])

\* an included year with an observation on February 29
C6_Witness ==
    /\ Processed
    /\ 2020 \in IncludedYears
    /\ <<2020, 2, 29>> \in Range(annual_results[1].dates[2020])
    /\ <<2000, 2, 29>> \in Range(annual_results[1].normalized[2020].index)

----------------------------------------------------------------------------
\* the years of years_to_display that have a non-empty normalized series
Qualifying ==
    SelectSeq(years_to_display,
              LAMBDA y : /\ y \in IncludedYears
                         /\ Len(annual_results[1].normalized[y].values) > 0)

(* C7: the summary has one row per qualifying year, in the order of        *)
(* years_to_display; the row of year Y shows the last element of           *)
(* original[Y] and the last element of normalized[Y]; years without data   *)
(* have no row, and there is no table when no year qualifies.              *)
C7_Summary ==
    pc = "done" =>
       IF fig = None \/ Qualifying = <<>>
       THEN summary_df = None /\ "table" \notin Range(ui)
       ELSE /\ summary_df # None
            /\ Len(summary_df[1]) = Len(Qualifying)
            /\ \A i \in 1..Len(Qualifying) :
                  LET y == Qualifying[i]
                      row == summary_df[1][i]
                  IN /\ row.Year = y
                     /\ row.YearEndValue
                          = Format2(<<Last(annual_results[1].original[y].values), 1>>)
                     /\ row.YearPerformance
                          = Format2(Last(annual_results[1].normalized[y].values))
            /\ "table" \in Range(ui)

\* both years qualify and were selected in descending order
C7_Witness ==
    /\ pc = "done"
    /\ years_to_display = <<2020, 2019>>
    /\ summary_df # None
    /\ Len(summary_df[1]) = 2
    /\ summary_df[1][1].Year = 2020
    /\ summary_df[1][2].Year = 2019
    /\ summary_df[1][1].YearPerformance # summary_df[1][2].YearPerformance

NoYearsWarning == "warning: Please select at least one year to display"

(* C8: with no year selected the provider is never called, no chart and no *)
(* table is rendered, no error is raised or shown, and the request runs to *)
(* its end, which is a warning.                                            *)
C8_NoYears ==
    years_to_display = <<>> =>
       /\ downloads = 0
       /\ pc \in {"start", "fetched", "done"}
       /\ asset_data = None /\ annual_results = None
       /\ fig = None /\ summary_df = None
       /\ \A i \in 1..Len(ui) : ui[i] = NoYearsWarning
       /\ pc # "done" => ENABLED Next
       /\ pc # "start" => ui # <<>>
       /\ pc = "done" => Last(ui) = NoYearsWarning

\* the provider has rows for the ticker, and the request ended without asking
C8_Witness ==
    /\ years_to_display = <<>>
    /\ pc = "done"
    /\ market # <<>>
    /\ ~fails

\* the provider answered the download with an empty frame
NoDataCase ==
    /\ years_to_display # <<>>
    /\ ~fails
    /\ yf_download([market |-> market, fails |-> FALSE],
                   <<MinOf(Range(years_to_display)) - 1, 12, 31>>).df = <<>>

(* C9: for a non-empty year set, what get_asset_data hands its caller when *)
(* the provider returns no data differs from what it hands it when the     *)
(* download raises.                                                        *)
C9_Distinguishable ==
    (pc \in {"fetched", "done"} /\ NoDataCase) =>
       asset_data # get_asset_data([market |-> market, fails |-> TRUE],
                                   years_to_display).ret

(* C10: the display mode decides only the y values of the traces, taken    *)
(* from the normalized values in percent mode and from the original values *)
(* otherwise; the result of process_annual_data, the traces and their      *)
(* order, their x values, hover labels and custom data, and the summary    *)
(* are what they are in the other mode.                                    *)
C10_ModeToggle ==
    /\ Processed =>
         annual_results = process_annual_data(asset_data, years_to_display).ret
    /\ fig # None =>
         LET res == annual_results[1]
             pct == create_performance_chart(res, years_to_display, TRUE)
             val == create_performance_chart(res, years_to_display, FALSE)
             other == IF show_percent THEN val ELSE pct
             shown == SelectSeq(years_to_display, LAMBDA y : y \in IncludedYears)
         IN /\ Len(fig[1].traces) = Len(shown)
            /\ Len(other.traces) = Len(shown)
            /\ \A k \in 1..Len(shown) :
                  LET t == fig[1].traces[k]
                      o == other.traces[k]
                  IN /\ t.name = shown[k] /\ o.name = shown[k]
                     /\ t.x = res.normalized[shown[k]].index
                     /\ o.x = t.x
                     /\ o.color = t.color
                     /\ o.hovertext = t.hovertext
                     /\ o.customdata = t.customdata
                     /\ t.y = IF show_percent THEN res.normalized[shown[k]].values
                              ELSE res.original[shown[k]].values
                     /\ o.y = IF show_percent THEN res.original[shown[k]].values
                              ELSE res.normalized[shown[k]].values
    /\ pc = "done" /\ fig # None =>
         summary_df = create_summary_table(annual_results[1].normalized,
                                           annual_results[1].original,
                                           years_to_display)

\* value mode, two traces, and a return that is not the price
C10_Witness ==
    /\ pc = "done"
    /\ ~show_percent
    /\ fig # None
    /\ Len(fig[1].traces) = 2
    /\ fig[1].traces[1].y = annual_results[1].original[fig[1].traces[1].name].values
    /\ \E j \in 1..Len(fig[1].traces[1].hovertext[1]) :
          fig[1].traces[1].hovertext[1][j].Performance
            # fig[1].traces[1].hovertext[1][j].Value

====
